---- MODULE Spec2Model ----
(***************************************************************************)
(* Model of createTransition (src/src/scenes/game/transitions/             *)
(* makeTransition.ts): the stage manager, its two internal KEvents, the    *)
(* five KEvents of the returned Transition, and the camera flags; and of   *)
(* the Conductor (src/src/conductor.ts): its update object, its KEvent and *)
(* the beat it last saw.                                                   *)
(*                                                                         *)
(* Every action is one call made from outside (trigger, enterStage,        *)
(* finishStage, callPrompt, callInput, or one of the on... subscriptions)  *)
(* together with every handler that call runs synchronously.               *)
(***************************************************************************)
EXTENDS Integers, Sequences, FiniteSets, TLC

VARIABLES
    stages,        \* stageManager.stages
    mgrStartEv,    \* stageManager.startEv: handlers added by onStart/defineStage
    mgrEndEv,      \* stageManager.endEv: the advancement listener
    startEv,       \* const startEv  (handlers added by Transition.onStageStart)
    endEv,         \* const endEv    (handlers added by Transition.onStageEnd)
    promptEv,      \* const promptEv (handlers added by Transition.onPromptTime)
    inputEv,       \* const inputEv  (handlers added by Transition.onInputPromptTime)
    endTransEv,    \* const endTransEv (handlers added by Transition.onTransitionEnd)
    cameraPaused,  \* camera.paused
    cameraHidden,  \* camera.hidden
    finishSync,    \* the transition definition's stage actions call finishStage at once
    crashed,       \* a call ended in a stack overflow (unbounded synchronous recursion)
    perCall,       \* history: trace holds the last operation only (else all since the last trigger)
    trace,         \* history: calls made, handlers run, events delivered
    active,        \* history: per stage, enterStage dispatches not yet matched by a finishStage
    ended,         \* history: endTransEv.trigger() was called since the last trigger
    dropped,       \* history: how many subscribers the last teardown cleared
    lastTrigger,   \* history: the argument of the last trigger call
    soundTime,     \* sound.time(), in units of 1/UnitsPerBeat of a beat
    currentBeat,   \* let currentBeat (Conductor constructor)
    objExists,     \* this.obj.exists()
    beatHitEv,     \* this.beatHitEv (handlers added by Conductor.onBeat)
    soundEnded,    \* the sound has reached its end (sound.onEnd has fired)
    destroyed      \* history: destroy() has been called

\* The variables of the Conductor
condVars == <<soundTime, currentBeat, objExists, beatHitEv, soundEnded, destroyed>>

vars == <<stages, mgrStartEv, mgrEndEv, startEv, endEv, promptEv, inputEv,
          endTransEv, cameraPaused, cameraHidden, finishSync, crashed, perCall,
          trace, active, ended, dropped, lastTrigger, condVars>>

----------------------------------------------------------------------------
(* Bounds of the model *)

\* Longest stage sequence handed to trigger
MaxLen == 2
\* Calls of enterStage/finishStage/callPrompt/callInput made after one trigger
\* (when the history holds all of them)
MaxCalls == 2
\* Subscriptions alive at once over the five channels of the Transition
MaxSubs == 2
\* Depth of nested enterStage calls at which the call stack overflows
MaxDepth == 5
\* Stages entered and not finished that the history variable counts
MaxActive == 2

\* Subscriptions to onBeat alive at once
MaxBeatSubs == 2
\* Length of the sound, in units of soundTime
MaxTime == 5
\* Units of soundTime in one beat (60 / bpm seconds)
UnitsPerBeat == 2

\* The stages of the model: the first two of baseStages
baseStages == <<"prep", "win">>

Stage == {baseStages[i] : i \in DOMAIN baseStages}

\* A stage value that is no stage (the filter of handlers that take no stage)
NoStage == "none"

\* The arguments of trigger: the non-empty stage sequences up to MaxLen
StageSeqs == UNION {[1..n -> Stage] : n \in 1..MaxLen}

\* The transition definition: one onStart, then one defineStage per stage
TransAction ==
    <<[kind |-> "onStart", stage |-> NoStage]>>
    \o [i \in DOMAIN baseStages |-> [kind |-> "defineStage", stage |-> baseStages[i]]]

----------------------------------------------------------------------------
(* KEvent: an ordered list of handlers *)

\* One entry of the history: what happened, for which stage, and (for an event
\* delivered to a subscriber) the subscriber's tag: "new" as subscribed, "pre"
\* once a trigger call found it subscribed, "old" once a run ended over it
Ev(e, s, t) == [ev |-> e, stage |-> s, tag |-> t]

NoTag == "-"

\* KEvent.add: the handler goes last
KEventAdd(handlers, h) == Append(handlers, h)

\* KEvent.clear: no handler is left
KEventClear(handlers) == << >>

\* The handlers of a stage-filtered channel whose filter lets `stage` through
Matching(handlers, stage) == SelectSeq(handlers, LAMBDA h : h.stage = stage)

\* KEvent.trigger on a channel of subscribers: each one is invoked, in order
Deliveries(handlers, e) ==
    [i \in 1..Len(handlers) |-> Ev(e, handlers[i].stage, handlers[i].tag)]

\* History only: the subscribers present at a trigger call, or when a run ends, are tagged
Mark(handlers, t) == [i \in 1..Len(handlers) |-> [handlers[i] EXCEPT !.tag = t]]

\* Array.prototype.indexOf, 0-based, -1 when absent
IndexOf(seq, x) ==
    IF \E i \in 1..Len(seq) : seq[i] = x
    THEN (CHOOSE i \in 1..Len(seq) : seq[i] = x /\ \A j \in 1..(i - 1) : seq[j] # x) - 1
    ELSE -1

Log(st, e, s) == [st EXCEPT !.trace = Append(@, Ev(e, s, NoTag))]

----------------------------------------------------------------------------
(* The stage manager *)

RECURSIVE EnterStage(_, _, _)
RECURSIVE FinishStage(_, _, _)
RECURSIVE RunStartHandlers(_, _, _, _)
RECURSIVE RunEndHandlers(_, _, _, _)
RECURSIVE RunTransEndHandlers(_, _, _)
RECURSIVE TriggerOp(_, _, _)

\* The action a transition definition registers for a stage: it either calls
\* finishStage for its stage at once, or leaves that to a later callback.
StageAction(st, stage, fuel) ==
    IF finishSync THEN FinishStage(st, stage, fuel) ELSE st

\* The handler onStart adds: if (stage == this.stages[0]) action()
OnStartHandler(st, stage) ==
    IF Len(st.stages) > 0 /\ stage = st.stages[1]
    THEN Log(st, "onStart", stage)
    ELSE st

\* The handler defineStage adds: if (actionStage == stage) action()
DefineStageHandler(st, stage, actionStage, fuel) ==
    IF actionStage = stage
    THEN StageAction(Log(st, "defineStage", stage), stage, fuel)
    ELSE st

\* this.startEv.trigger(stage): the handlers from the i-th on
RunStartHandlers(st, i, stage, fuel) ==
    IF st.crashed \/ i > Len(st.mgrStartEv) THEN st
    ELSE LET h == st.mgrStartEv[i]
             s1 == IF h.kind = "onStart"
                   THEN OnStartHandler(st, stage)
                   ELSE DefineStageHandler(st, h.stage, stage, fuel)
         IN  RunStartHandlers(s1, i + 1, stage, fuel)

\* The subscribers of the five channels of the Transition
Subscribed(st) ==
    Len(st.startEv) + Len(st.endEv) + Len(st.promptEv) + Len(st.inputEv)
    + Len(st.endTransEv)

\* A handler of onTransitionEnd that starts the next run: it subscribes to the
\* stage-start and stage-end of `stage` and to transition-end, then calls
\* trigger([stage])
RestartHandler(st, stage, fuel) ==
    LET s1 == [st EXCEPT !.startEv = KEventAdd(@, [stage |-> stage, tag |-> "fresh"]),
                         !.endEv = KEventAdd(@, [stage |-> stage, tag |-> "fresh"]),
                         !.endTransEv = KEventAdd(@, [stage |-> NoStage, tag |-> "fresh"]),
                         !.ended = FALSE, !.lastTrigger = <<stage>>]
    IN  TriggerOp(s1, <<stage>>, fuel)

\* endTransEv.trigger(): the handlers from the i-th on, those added meanwhile
\* included
RunTransEndHandlers(st, i, fuel) ==
    IF st.crashed \/ i > Len(st.endTransEv) THEN st
    ELSE LET h == st.endTransEv[i]
             s1 == [st EXCEPT !.trace = Append(@, Ev("transitionEnd", h.stage, h.tag))]
             s2 == IF h.tag = "restart" THEN RestartHandler(s1, h.stage, fuel) ELSE s1
         IN  RunTransEndHandlers(s2, i + 1, fuel)

\* Teardown with endEv.clear() left out
TeardownKeepsEndEv(st, fuel) ==
    LET s0 == [st EXCEPT !.trace = Append(@, Ev("runComplete", NoStage, NoTag)),
                         !.ended = TRUE]
        s1 == RunTransEndHandlers(s0, 1, fuel)
        s2 == [s1 EXCEPT !.startEv = Mark(@, "old"), !.endEv = Mark(@, "old"),
                         !.inputEv = Mark(@, "old"), !.promptEv = Mark(@, "old"),
                         !.endTransEv = Mark(@, "old"),
                         !.dropped = Subscribed(s1)]
    IN  IF s1.crashed THEN s1
        ELSE [s2 EXCEPT !.startEv = KEventClear(@),
                        !.inputEv = KEventClear(@),
                        !.promptEv = KEventClear(@),
                        !.endTransEv = KEventClear(@),
                        !.cameraPaused = TRUE,
                        !.cameraHidden = TRUE]

\* Teardown clearing the stage manager's own startEv and endEv as well
TeardownClearsInternal(st, fuel) ==
    LET s0 == [st EXCEPT !.trace = Append(@, Ev("runComplete", NoStage, NoTag)),
                         !.ended = TRUE]
        s1 == RunTransEndHandlers(s0, 1, fuel)
        s2 == [s1 EXCEPT !.startEv = Mark(@, "old"), !.endEv = Mark(@, "old"),
                         !.inputEv = Mark(@, "old"), !.promptEv = Mark(@, "old"),
                         !.endTransEv = Mark(@, "old"),
                         !.dropped = Subscribed(s1)]
    IN  IF s1.crashed THEN s1
        ELSE [s2 EXCEPT !.startEv = KEventClear(@),
                        !.endEv = KEventClear(@),
                        !.inputEv = KEventClear(@),
                        !.promptEv = KEventClear(@),
                        !.endTransEv = KEventClear(@),
                        !.mgrStartEv = KEventClear(@),
                        !.mgrEndEv = KEventClear(@),
                        !.cameraPaused = TRUE,
                        !.cameraHidden = TRUE]

\* Teardown setting stageManager.stages to the empty array as well
TeardownResetsStages(st, fuel) ==
    LET s0 == [st EXCEPT !.trace = Append(@, Ev("runComplete", NoStage, NoTag)),
                         !.ended = TRUE]
        s1 == RunTransEndHandlers(s0, 1, fuel)
        s2 == [s1 EXCEPT !.startEv = Mark(@, "old"), !.endEv = Mark(@, "old"),
                         !.inputEv = Mark(@, "old"), !.promptEv = Mark(@, "old"),
                         !.endTransEv = Mark(@, "old"),
                         !.dropped = Subscribed(s1)]
    IN  IF s1.crashed THEN s1
        ELSE [s2 EXCEPT !.startEv = KEventClear(@),
                        !.endEv = KEventClear(@),
                        !.inputEv = KEventClear(@),
                        !.promptEv = KEventClear(@),
                        !.endTransEv = KEventClear(@),
                        !.stages = << >>,
                        !.cameraPaused = TRUE,
                        !.cameraHidden = TRUE]

\* The run is over: endTransEv.trigger(), the clears, the camera flags
Teardown(st, fuel) ==
    LET s0 == [st EXCEPT !.trace = Append(@, Ev("runComplete", NoStage, NoTag)),
                         !.ended = TRUE]
        s1 == RunTransEndHandlers(s0, 1, fuel)
        s2 == [s1 EXCEPT !.startEv = Mark(@, "old"), !.endEv = Mark(@, "old"),
                         !.inputEv = Mark(@, "old"), !.promptEv = Mark(@, "old"),
                         !.endTransEv = Mark(@, "old"),
                         !.dropped = Subscribed(s1)]
    IN  IF s1.crashed THEN s1
        ELSE [s2 EXCEPT !.startEv = KEventClear(@),
                        !.endEv = KEventClear(@),
                        !.inputEv = KEventClear(@),
                        !.promptEv = KEventClear(@),
                        !.endTransEv = KEventClear(@),
                        !.cameraPaused = TRUE,
                        !.cameraHidden = TRUE]

\* Array.prototype.lastIndexOf, 0-based, -1 when absent
LastIndexOf(seq, x) ==
    IF \E i \in 1..Len(seq) : seq[i] = x
    THEN (CHOOSE i \in 1..Len(seq) : seq[i] = x /\ \A j \in (i + 1)..Len(seq) : seq[j] # x) - 1
    ELSE -1

\* The listener looking the finished stage up from the end of the sequence
AdvanceByLastOccurrence(st, stage, fuel) ==
    IF LastIndexOf(st.stages, stage) < Len(st.stages) - 1
    THEN EnterStage(st, st.stages[LastIndexOf(st.stages, stage) + 2], fuel)
    ELSE Teardown(st, fuel)

\* The listener createTransition adds to stageManager.endEv
AdvanceListener(st, stage, fuel) ==
    IF IndexOf(st.stages, stage) < Len(st.stages) - 1
    THEN EnterStage(st, st.stages[IndexOf(st.stages, stage) + 2], fuel)
    ELSE Teardown(st, fuel)

\* this.endEv.trigger(stage): the handlers from the i-th on
RunEndHandlers(st, i, stage, fuel) ==
    IF st.crashed \/ i > Len(st.mgrEndEv) THEN st
    ELSE RunEndHandlers(AdvanceListener(st, stage, fuel), i + 1, stage, fuel)

\* stageManager.enterStage
EnterStage(st, stage, fuel) ==
    IF st.crashed THEN st
    ELSE IF fuel = 0 THEN [st EXCEPT !.crashed = TRUE]
    ELSE LET s0 == [st EXCEPT !.active[stage] = @ + 1]
             s1 == RunStartHandlers(s0, 1, stage, fuel - 1)
         IN  IF s1.crashed THEN s1
             ELSE [s1 EXCEPT !.trace = @ \o Deliveries(Matching(s1.startEv, stage), "stageStart")]

\* stageManager.finishStage
FinishStage(st, stage, fuel) ==
    IF st.crashed THEN st
    ELSE LET s0 == [st EXCEPT !.active[stage] = IF @ > 0 THEN @ - 1 ELSE 0]
             s1 == RunEndHandlers(s0, 1, stage, fuel)
         IN  IF s1.crashed THEN s1
             ELSE [s1 EXCEPT !.trace = @ \o Deliveries(Matching(s1.endEv, stage), "stageEnd")]

\* callPrompt triggering inputEv in place of promptEv
CallPromptTriggersInput(st) ==
    [st EXCEPT !.trace = @ \o Deliveries(st.inputEv, "inputPromptTime")]

\* stageManager.callPrompt
CallPromptOp(st) == [st EXCEPT !.trace = @ \o Deliveries(st.promptEv, "promptTime")]

\* stageManager.callInput
CallInputOp(st) == [st EXCEPT !.trace = @ \o Deliveries(st.inputEv, "inputPromptTime")]

\* trigger ending the run in flight (transition-end, teardown) before the new one
TriggerEndsOldRun(st, stgs, fuel) ==
    LET s0 == IF st.stages # << >> THEN Teardown(st, fuel) ELSE st
        s1 == EnterStage([s0 EXCEPT !.stages = stgs, !.ended = FALSE], stgs[1], fuel)
    IN  IF s1.crashed THEN s1
        ELSE [s1 EXCEPT !.cameraPaused = FALSE, !.cameraHidden = FALSE]

\* trigger running the transition definition again
TriggerRerunsDefinition(st, stgs, fuel) ==
    LET s1 == EnterStage([st EXCEPT !.stages = stgs, !.mgrStartEv = @ \o TransAction],
                         stgs[1], fuel)
    IN  IF s1.crashed THEN s1
        ELSE [s1 EXCEPT !.cameraPaused = FALSE, !.cameraHidden = FALSE]

\* Transition.trigger
TriggerOp(st, stgs, fuel) ==
    LET s1 == EnterStage([st EXCEPT !.stages = stgs], stgs[1], fuel)
    IN  IF s1.crashed THEN s1
        ELSE [s1 EXCEPT !.cameraPaused = FALSE, !.cameraHidden = FALSE]

----------------------------------------------------------------------------
(* The state as one record, and back *)

State ==
    [stages |-> stages, mgrStartEv |-> mgrStartEv, mgrEndEv |-> mgrEndEv,
     startEv |-> startEv, endEv |-> endEv, promptEv |-> promptEv,
     inputEv |-> inputEv, endTransEv |-> endTransEv,
     cameraPaused |-> cameraPaused, cameraHidden |-> cameraHidden,
     crashed |-> crashed, trace |-> trace, active |-> active,
     ended |-> ended, dropped |-> dropped, lastTrigger |-> lastTrigger]

\* The history an operation starts from
Start == IF perCall THEN [State EXCEPT !.trace = << >>] ELSE State

RECURSIVE SumOver(_, _)
SumOver(a, S) ==
    IF S = {} THEN 0
    ELSE LET x == CHOOSE y \in S : TRUE IN a[x] + SumOver(a, S \ {x})

TotalActive(a) == SumOver(a, Stage)

CallMarks == {"enterStage", "finishStage", "callPrompt", "callInput"}

NumCalls(tr) == Len(SelectSeq(tr, LAMBDA e : e.ev \in CallMarks))

InBounds(st) ==
    /\ TotalActive(st.active) <= MaxActive
    /\ NumCalls(st.trace) <= MaxCalls

Commit(st) ==
    /\ InBounds(st)
    /\ stages' = st.stages
    /\ mgrStartEv' = st.mgrStartEv
    /\ mgrEndEv' = st.mgrEndEv
    /\ startEv' = st.startEv
    /\ endEv' = st.endEv
    /\ promptEv' = st.promptEv
    /\ inputEv' = st.inputEv
    /\ endTransEv' = st.endTransEv
    /\ cameraPaused' = st.cameraPaused
    /\ cameraHidden' = st.cameraHidden
    /\ crashed' = st.crashed
    /\ trace' = st.trace
    /\ active' = st.active
    /\ ended' = st.ended
    /\ dropped' = st.dropped
    /\ lastTrigger' = st.lastTrigger
    /\ UNCHANGED <<finishSync, perCall, condVars>>

NumSubs == Subscribed(State)

\* A subscriber that only records that it was invoked
Sub(stage) == [stage |-> stage, tag |-> "new"]

----------------------------------------------------------------------------
(* createTransition *)

InitState ==
    /\ stages = << >>
    /\ mgrStartEv = TransAction
    /\ mgrEndEv = <<[kind |-> "advance", stage |-> NoStage]>>
    /\ startEv = << >>
    /\ endEv = << >>
    /\ promptEv = << >>
    /\ inputEv = << >>
    /\ endTransEv = << >>
    /\ cameraPaused = FALSE
    /\ cameraHidden = FALSE
    /\ finishSync \in BOOLEAN
    /\ crashed = FALSE
    /\ trace = << >>
    /\ active = [s \in Stage |-> 0]
    /\ ended = FALSE
    /\ dropped = 0
    /\ lastTrigger = << >>

\* new Conductor(k, sound, bpm)
InitConductor ==
    /\ soundTime = 0
    /\ currentBeat = 0
    /\ objExists = TRUE
    /\ beatHitEv = << >>
    /\ soundEnded = FALSE
    /\ destroyed = FALSE

Init == InitState /\ InitConductor /\ perCall = FALSE

InitPerCall == InitState /\ InitConductor /\ perCall = TRUE

----------------------------------------------------------------------------
(* The calls *)

\* Transition.trigger(stgs); the history starts over with this call
Trigger(stgs) ==
    /\ ~crashed
    /\ LET s0 == [State EXCEPT !.trace = <<Ev("trigger", NoStage, NoTag)>>,
                               !.ended = FALSE, !.dropped = 0, !.lastTrigger = stgs,
                               !.startEv = Mark(@, "pre"), !.endEv = Mark(@, "pre"),
                               !.promptEv = Mark(@, "pre"), !.inputEv = Mark(@, "pre"),
                               !.endTransEv = Mark(@, "pre")]
       IN  Commit(TriggerOp(s0, stgs, MaxDepth))

\* stageManager.enterStage(stage), called by a callback of the definition
CallEnterStage(stage) ==
    /\ ~crashed
    /\ Commit(EnterStage(Log(Start, "enterStage", stage), stage, MaxDepth))

\* stageManager.finishStage(stage), called by a callback of the definition
CallFinishStage(stage) ==
    /\ ~crashed
    /\ Commit(FinishStage(Log(Start, "finishStage", stage), stage, MaxDepth))

\* stageManager.callPrompt()
CallPrompt ==
    /\ ~crashed
    /\ Commit(CallPromptOp(Log(Start, "callPrompt", NoStage)))

\* stageManager.callInput()
CallInput ==
    /\ ~crashed
    /\ Commit(CallInputOp(Log(Start, "callInput", NoStage)))

\* Transition.onStageStart(stage, action)
OnStageStart(stage) ==
    /\ ~crashed
    /\ NumSubs < MaxSubs
    /\ startEv' = KEventAdd(startEv, Sub(stage))
    /\ trace' = Start.trace
    /\ UNCHANGED <<stages, mgrStartEv, mgrEndEv, endEv, promptEv, inputEv, endTransEv,
                   cameraPaused, cameraHidden, finishSync, crashed, active, perCall, ended, dropped,
                   lastTrigger, condVars>>

\* Transition.onStageEnd(stage, action)
OnStageEnd(stage) ==
    /\ ~crashed
    /\ NumSubs < MaxSubs
    /\ endEv' = KEventAdd(endEv, Sub(stage))
    /\ trace' = Start.trace
    /\ UNCHANGED <<stages, mgrStartEv, mgrEndEv, startEv, promptEv, inputEv, endTransEv,
                   cameraPaused, cameraHidden, finishSync, crashed, active, perCall, ended, dropped,
                   lastTrigger, condVars>>

\* Transition.onTransitionEnd(action)
OnTransitionEnd ==
    /\ ~crashed
    /\ NumSubs < MaxSubs
    /\ endTransEv' = KEventAdd(endTransEv, Sub(NoStage))
    /\ trace' = Start.trace
    /\ UNCHANGED <<stages, mgrStartEv, mgrEndEv, startEv, endEv, promptEv, inputEv,
                   cameraPaused, cameraHidden, finishSync, crashed, active, perCall, ended, dropped,
                   lastTrigger, condVars>>

\* Transition.onPromptTime(action)
OnPromptTime ==
    /\ ~crashed
    /\ NumSubs < MaxSubs
    /\ promptEv' = KEventAdd(promptEv, Sub(NoStage))
    /\ trace' = Start.trace
    /\ UNCHANGED <<stages, mgrStartEv, mgrEndEv, startEv, endEv, inputEv, endTransEv,
                   cameraPaused, cameraHidden, finishSync, crashed, active, perCall, ended, dropped,
                   lastTrigger, condVars>>

\* Transition.onInputPromptTime(action)
OnInputPromptTime ==
    /\ ~crashed
    /\ NumSubs < MaxSubs
    /\ inputEv' = KEventAdd(inputEv, Sub(NoStage))
    /\ trace' = Start.trace
    /\ UNCHANGED <<stages, mgrStartEv, mgrEndEv, startEv, endEv, promptEv, endTransEv,
                   cameraPaused, cameraHidden, finishSync, crashed, active, perCall, ended, dropped,
                   lastTrigger, condVars>>

Next ==
    \/ \E stgs \in StageSeqs : Trigger(stgs)
    \/ \E stage \in Stage : CallEnterStage(stage)
    \/ \E stage \in Stage : CallFinishStage(stage)
    \/ CallPrompt
    \/ CallInput
    \/ \E stage \in Stage : OnStageStart(stage)
    \/ \E stage \in Stage : OnStageEnd(stage)
    \/ OnTransitionEnd
    \/ OnPromptTime
    \/ OnInputPromptTime

Spec == Init /\ [][Next]_vars

\* Transition.onTransitionEnd(action) with an action that starts the next run
OnTransitionEndRestart(stage) ==
    /\ ~crashed
    /\ NumSubs < MaxSubs
    /\ endTransEv' = KEventAdd(endTransEv, [stage |-> stage, tag |-> "restart"])
    /\ trace' = Start.trace
    /\ UNCHANGED <<stages, mgrStartEv, mgrEndEv, startEv, endEv, promptEv, inputEv,
                   cameraPaused, cameraHidden, finishSync, crashed, active, perCall, ended, dropped,
                   lastTrigger, condVars>>

NextRestart ==
    \/ Next
    \/ \E stage \in Stage : OnTransitionEndRestart(stage)

\* A definition whose stage actions leave finishStage to a later callback
InitRestart == InitPerCall /\ finishSync = FALSE

\* The program with onTransitionEnd handlers that start the next run
SpecRestart == InitRestart /\ [][NextRestart]_vars

\* The same program, its history kept per operation
SpecPerCall == InitPerCall /\ [][Next]_vars

----------------------------------------------------------------------------
(* The Conductor *)

\* The variables of createTransition, the history of the last operation left out
transVars == <<stages, mgrStartEv, mgrEndEv, startEv, endEv, promptEv, inputEv,
               endTransEv, cameraPaused, cameraHidden, finishSync, crashed, perCall,
               active, ended, dropped, lastTrigger>>

\* Math.floor(sound.time() / (60 / bpm))
BeatOf(time) == time \div UnitsPerBeat

Conductor == [objExists |-> objExists, beatHitEv |-> beatHitEv]

\* destroy() without this.obj.destroy()
DestroyKeepsObj(c) ==
    IF ~c.objExists THEN c
    ELSE [c EXCEPT !.beatHitEv = KEventClear(@)]

\* Conductor.destroy
DestroyOp(c) ==
    IF ~c.objExists THEN c
    ELSE [c EXCEPT !.objExists = FALSE, !.beatHitEv = KEventClear(@)]

\* The sound plays on by one unit of time
Advance ==
    /\ ~soundEnded
    /\ soundTime < MaxTime
    /\ soundTime' = soundTime + 1
    /\ trace' = << >>
    /\ UNCHANGED <<currentBeat, objExists, beatHitEv, soundEnded, destroyed, transVars>>

\* The callback of this.obj.onUpdate: one update tick of the object
Update ==
    /\ objExists
    /\ LET beatTime == BeatOf(soundTime)
           oldBeat == currentBeat
       IN  /\ currentBeat' = beatTime
           /\ trace' = <<Ev("update", NoStage, NoTag)>>
                        \o (IF beatTime # oldBeat
                            THEN Deliveries(beatHitEv, "beatHit")
                            ELSE << >>)
    /\ UNCHANGED <<soundTime, objExists, beatHitEv, soundEnded, destroyed, transVars>>

\* Conductor.onBeat(action)
OnBeat ==
    /\ Len(beatHitEv) < MaxBeatSubs
    /\ beatHitEv' = KEventAdd(beatHitEv, Sub(NoStage))
    /\ trace' = << >>
    /\ UNCHANGED <<soundTime, currentBeat, objExists, soundEnded, destroyed, transVars>>

\* conductor.destroy(), called from outside
Destroy ==
    /\ objExists' = DestroyOp(Conductor).objExists
    /\ beatHitEv' = DestroyOp(Conductor).beatHitEv
    /\ destroyed' = TRUE
    /\ trace' = <<Ev("destroy", NoStage, NoTag)>>
    /\ UNCHANGED <<soundTime, currentBeat, soundEnded, transVars>>

\* sound.onEnd(() => this.destroy()): the sound ends
SoundEnd ==
    /\ ~soundEnded
    /\ soundEnded' = TRUE
    /\ objExists' = DestroyOp(Conductor).objExists
    /\ beatHitEv' = DestroyOp(Conductor).beatHitEv
    /\ destroyed' = TRUE
    /\ trace' = <<Ev("soundEnd", NoStage, NoTag)>>
    /\ UNCHANGED <<soundTime, currentBeat, transVars>>

InitConductorRun == InitPerCall /\ finishSync = FALSE

NextConductor ==
    \/ Advance
    \/ Update
    \/ OnBeat
    \/ Destroy
    \/ SoundEnd

\* The Conductor on its own
SpecConductor == InitConductorRun /\ [][NextConductor]_vars

----------------------------------------------------------------------------
(* Reading the history *)

\* A trigger call has been made (the history starts with it)
Triggered(tr) == Len(tr) > 0 /\ tr[1].ev = "trigger"

\* The calls made after the trigger, in order
Calls(tr) == SelectSeq(tr, LAMBDA e : e.ev \in CallMarks)

\* finishStage called on each of the first n stages of S, in order
InOrderCalls(S, n) == [i \in 1..n |-> Ev("finishStage", S[i], NoTag)]

\* The calls so far are finishStage on the first stages of S in order, no other call
DrivenPrefix(tr, S) ==
    /\ Triggered(tr)
    /\ Len(Calls(tr)) <= Len(S)
    /\ Calls(tr) = InOrderCalls(S, Len(Calls(tr)))

\* finishStage has been called on every stage of S in order, and nothing else
DrivenInOrder(tr, S) == Triggered(tr) /\ Calls(tr) = InOrderCalls(S, Len(S))

\* The run was driven to its end: by the stage actions themselves when they call
\* finishStage at once, by the in-order finishStage calls otherwise
DrivenToCompletion ==
    \/ finishSync /\ Triggered(trace) /\ Calls(trace) = << >>
    \/ ~finishSync /\ DrivenInOrder(trace, stages)

Count(tr, e, s) == Len(SelectSeq(tr, LAMBDA x : x.ev = e /\ x.stage = s))

CountEv(tr, e) == Len(SelectSeq(tr, LAMBDA x : x.ev = e))

Occurrences(S, s) == Cardinality({i \in 1..Len(S) : S[i] = s})

Range(S) == {S[i] : i \in 1..Len(S)}

NoRepeats(S) == \A i, j \in 1..Len(S) : S[i] = S[j] => i = j

\* endTransEv.trigger() has been called since the last trigger
RunComplete(tr) == \E p \in 1..Len(tr) : tr[p].ev = "runComplete"

\* What a step added to the history
NewEntries == SubSeq(trace', Len(trace) + 1, Len(trace'))

\* The events delivered to the subscribers that were subscribed before the trigger
PreDeliveries(tr) ==
    SelectSeq(tr, LAMBDA e : e.tag = "pre"
                             /\ e.ev \in {"stageStart", "stageEnd", "transitionEnd"})

PreOnly(handlers) == SelectSeq(handlers, LAMBDA h : h.tag = "pre")

\* The events a run of S owes the subscribers sEv, eEv, tEv: for each position
\* stage-start then stage-end, and transition-end after the last stage-end
RECURSIVE StageEvents(_, _, _, _)
StageEvents(S, i, sEv, eEv) ==
    IF i > Len(S) THEN << >>
    ELSE Deliveries(Matching(sEv, S[i]), "stageStart")
         \o Deliveries(Matching(eEv, S[i]), "stageEnd")
         \o StageEvents(S, i + 1, sEv, eEv)

ExpectedEvents(S, sEv, eEv, tEv) ==
    StageEvents(S, 1, sEv, eEv) \o Deliveries(tEv, "transitionEnd")

TriggerStep == \E stgs \in StageSeqs : Trigger(stgs)

EnterStep == \E stage \in Stage : CallEnterStage(stage)

FinishStep == \E stage \in Stage : CallFinishStage(stage)

----------------------------------------------------------------------------
(* The claims *)

\* C1: when finishStage has been called on each stage of S in order after
\* trigger(S), the subscribers registered before the trigger have received, for
\* each position in order, stage-start then stage-end, and one transition-end
\* after the stage-end of the last stage (n of each, and one transition-end).
\* Stated on the step of the last finishStage call, for whichever of those
\* subscribers are registered.
C1_AllEventsInOrder ==
    [][(/\ ~finishSync
        /\ FinishStep
        /\ DrivenInOrder(trace', stages))
       => PreDeliveries(trace')
            = ExpectedEvents(stages, PreOnly(startEv), PreOnly(endEv), PreOnly(endTransEv))]_vars

\* C2: with the stages of S distinct and S driven in order (by the stage
\* actions at once, or by later finishStage calls), a subscriber never sees
\* stage-start of S[i+1] before the subscriber of stage-end of S[i], registered
\* before the trigger, has seen that stage-end.
C2_StartOnlyAfterPreviousEnd ==
    [][(/\ TriggerStep \/ FinishStep
        /\ NoRepeats(stages')
        /\ DrivenPrefix(trace', stages'))
       => \A i \in 1..(Len(stages') - 1) :
            (\E k \in 1..Len(endEv) :
                endEv[k].stage = stages'[i] /\ (TriggerStep \/ endEv[k].tag = "pre"))
            => \A p \in 1..Len(trace') :
                 (trace'[p].ev = "stageStart" /\ trace'[p].stage = stages'[i + 1])
                 => \E q \in 1..(p - 1) :
                      trace'[q].ev = "stageEnd" /\ trace'[q].stage = stages'[i]]_vars

\* C3: a trigger or finishStage call made with at most one stage active (and
\* no enterStage call made directly since the trigger) leaves at most one
\* stage active.
C3_AtMostOneActive ==
    [][(/\ TriggerStep \/ FinishStep
        /\ Triggered(trace)
        /\ CountEv(trace, "enterStage") = 0
        /\ TotalActive(active) <= 1)
       => TotalActive(active') <= 1]_vars

\* C4: in a run driven in order (no call overflowing the stack), the onStart
\* action has been invoked exactly once, whatever positions have been entered
\* since the trigger.
C4_OnStartOncePerRun ==
    (DrivenPrefix(trace, stages) /\ ~crashed) => CountEv(trace, "onStart") = 1

\* C5: when a run of S has been driven to completion, the action defined for
\* a stage has been invoked once per occurrence of that stage in S.
C5_OncePerOccurrence ==
    (DrivenToCompletion /\ ~crashed)
    => \A s \in Stage : Count(trace, "defineStage", s) = Occurrences(stages, s)

\* C6: no subscriber that was subscribed when a run ended (transition-end
\* fired) is ever invoked afterwards, whatever is called.
C6_NoStaleSubscriber ==
    \A p \in 1..Len(trace) : trace[p].tag # "old"

\* C6 witness: a run ended and cleared at least one subscriber, and
\* enterStage was called afterwards: nothing was delivered.
C6_Witness ==
    /\ ~finishSync
    /\ ended
    /\ dropped >= 1
    /\ Len(trace) > 0
    /\ trace[1].ev = "enterStage"
    /\ \A p \in 1..Len(trace) : trace[p].tag = NoTag

\* The operation of this step was a call of enterStage or finishStage
EnterOrFinishCalled ==
    Len(trace') > 0 /\ trace'[1].ev \in {"enterStage", "finishStage"}

\* C7 as stated: after the run ended, an enterStage or finishStage call
\* invokes no stage action and no onStart action, enters no stage, fires no
\* transition-end, and leaves the stages and the camera flags unchanged.
C7_NoEffectAfterEnd ==
    [][(ended /\ EnterOrFinishCalled)
       => /\ \A p \in 1..Len(trace') :
               trace'[p].ev \notin {"onStart", "defineStage", "runComplete"}
          /\ stages' = stages
          /\ cameraPaused' = cameraPaused
          /\ cameraHidden' = cameraHidden]_vars

\* C7 amended: after the run ended only the subscribers of the Transition are
\* gone. An enterStage or finishStage call delivers nothing to a subscriber
\* of the ended run and leaves the stages unchanged, but the handlers of the
\* stage manager are kept: enterStage(s) runs the action defined for s, and
\* finishStage(s) enters the stage after the first s, or ends the run again.
C7_InternalHandlersKept ==
    [][(ended /\ EnterOrFinishCalled)
       => /\ stages' = stages
          /\ mgrStartEv' = mgrStartEv /\ mgrStartEv # << >>
          /\ mgrEndEv' = mgrEndEv /\ mgrEndEv # << >>
          /\ \A p \in 1..Len(trace') : trace'[p].tag # "old"
          /\ LET s == trace'[1].stage
                 i == IndexOf(stages, s)
             IN  IF trace'[1].ev = "enterStage"
                 THEN Count(trace', "defineStage", s) >= 1
                 ELSE IF i < Len(stages) - 1
                      THEN Count(trace', "defineStage", stages[i + 2]) >= 1
                      ELSE CountEv(trace', "runComplete") >= 1]_vars

\* C7 witness: the run had ended, enterStage was called, and the action
\* defined for that stage ran.
C7_Witness ==
    /\ ~finishSync
    /\ ended
    /\ Len(trace) > 1
    /\ trace[1].ev = "enterStage"
    /\ \E p \in 2..Len(trace) :
         trace[p].ev = "defineStage" /\ trace[p].stage = trace[1].stage

\* C8: finishStage(s) for a stage s that does not occur in the current,
\* non-empty sequence enters no stage: no stage action and no onStart action
\* runs, no stage-start is delivered, and no stage becomes active.
C8_UnknownStageNoAdvance ==
    [][\A s \in Stage :
        (CallFinishStage(s) /\ Len(stages) >= 1 /\ s \notin Range(stages))
        => /\ \A p \in 1..Len(NewEntries) :
                NewEntries[p].ev \notin {"onStart", "defineStage", "stageStart"}
           /\ \A t \in Stage : active'[t] <= active[t]]_vars

\* C9: once every stage of the sequence has been finished in order (no call
\* overflowing the stack), the run has ended: transition-end was fired.
C9_RunTerminates ==
    (DrivenToCompletion /\ ~crashed) => RunComplete(trace)

\* C10: a callPrompt call invokes every onPromptTime subscriber exactly once
\* and a callInput call every onInputPromptTime subscriber exactly once (so k
\* calls invoke each k times), and neither does anything else: no stage is
\* entered or finished, and the stages, the subscriptions and the camera
\* flags stay as they were.
C10_PromptIndependent ==
    [][(Len(trace') > 0 /\ trace'[1].ev \in {"callPrompt", "callInput"})
       => /\ trace'[1].ev = "callPrompt" =>
               Tail(trace') = [i \in 1..Len(promptEv) |->
                                  Ev("promptTime", NoStage, promptEv[i].tag)]
          /\ trace'[1].ev = "callInput" =>
               Tail(trace') = [i \in 1..Len(inputEv) |->
                                  Ev("inputPromptTime", NoStage, inputEv[i].tag)]
          /\ UNCHANGED <<stages, active, ended, cameraPaused, cameraHidden,
                         startEv, endEv, promptEv, inputEv, endTransEv>>]_vars

\* C10 witness: with one stage of a run active, callPrompt was called and
\* each of the two onPromptTime subscribers was invoked once.
C10_Witness ==
    /\ TotalActive(active) = 1
    /\ ~ended
    /\ Len(stages) > 0
    /\ Len(promptEv) = 2
    /\ Len(trace) = 3
    /\ trace[1].ev = "callPrompt"
    /\ trace[2].ev = "promptTime"
    /\ trace[3].ev = "promptTime"

\* C11: the stages of the handle are the argument of the most recent trigger
\* call (the empty sequence before any trigger): no enterStage, finishStage,
\* callPrompt or callInput call, and no run completion, changes them.
C11_StagesIsLastTrigger ==
    stages = lastTrigger

\* C11 witness: a run of two stages has ended by a finishStage call, and the
\* stages are still the two handed to trigger.
C11_Witness ==
    /\ ended
    /\ Len(lastTrigger) = 2
    /\ stages = lastTrigger
    /\ Len(trace) > 0
    /\ trace[1].ev = "finishStage"

\* A run has been started, has not ended, and has a stage active
RunInFlight == stages # << >> /\ ~ended /\ TotalActive(active) >= 1

\* C12: a trigger call made while a stage of an earlier run is active (stage
\* actions not finishing at once) sets the stages to its argument and enters
\* the first of them, with no stage-end and no transition-end dispatched and
\* the interrupted stage left active; and every finishStage call is resolved
\* against the stages as they are then: it enters the stage after the finished
\* one's first position there, or ends the run.
C12_LastWriterWins ==
    [][(~finishSync /\ Len(trace') > 0)
       => /\ (RunInFlight /\ trace'[1].ev = "trigger")
             => /\ stages' = lastTrigger'
                /\ \A p \in 1..Len(trace') :
                     trace'[p].ev \notin {"stageEnd", "transitionEnd", "runComplete"}
                /\ Count(trace', "defineStage", stages'[1]) = 1
                /\ active' = [active EXCEPT ![stages'[1]] = @ + 1]
                /\ ~ended'
          /\ (trace'[1].ev = "finishStage")
             => LET i == IndexOf(stages, trace'[1].stage)
                IN  IF i < Len(stages) - 1
                    THEN /\ Count(trace', "defineStage", stages[i + 2]) = 1
                         /\ CountEv(trace', "runComplete") = 0
                    ELSE /\ CountEv(trace', "runComplete") = 1
                         /\ CountEv(trace', "defineStage") = 0]_vars

\* C12 witness: trigger was called with a stage still active: that stage and
\* the first stage of the new sequence are both active, and no run has ended.
C12_Witness ==
    /\ ~finishSync
    /\ ~ended
    /\ Len(trace) > 0
    /\ trace[1].ev = "trigger"
    /\ stages = lastTrigger
    /\ TotalActive(active) = 2
    /\ \A p \in 1..Len(trace) : trace[p].ev \notin {"stageEnd", "transitionEnd", "runComplete"}

\* C13: the transition definition has run once, at construction: the handlers
\* it registered are there once each, and so is the advancement listener,
\* whatever has been called since.
C13_DefinitionRunOnce ==
    /\ mgrStartEv = TransAction
    /\ mgrEndEv = <<[kind |-> "advance", stage |-> NoStage]>>

\* C13 witness: a whole run has completed inside a trigger call and the
\* handlers of the definition are as construction left them.
C13_Witness ==
    /\ finishSync
    /\ ended
    /\ ~crashed
    /\ Len(trace) > 0
    /\ trace[1].ev = "trigger"
    /\ CountEv(trace, "defineStage") = 2
    /\ mgrStartEv = TransAction

\* C14: when a run has ended and trigger has not been called since, the camera
\* is paused and hidden; when a stage of a run is active, the camera is
\* unpaused and visible; also when the stage actions call finishStage at once.
C14_CameraTracksRun ==
    ~crashed
    => /\ ended => (cameraPaused /\ cameraHidden)
       /\ (~ended /\ lastTrigger # << >> /\ TotalActive(active) >= 1)
          => (~cameraPaused /\ ~cameraHidden)

\* C15: when an onTransitionEnd handler of a run that ends has subscribed new
\* listeners and called trigger, the new run goes on with the camera unpaused
\* and visible and with those listeners subscribed.
C15_RestartInHandlerSafe ==
    [][(/\ RunInFlight
        /\ ~crashed'
        /\ ~ended'
        /\ \E p \in 1..Len(trace') : trace'[p].tag = "restart")
       => /\ ~cameraPaused'
          /\ ~cameraHidden'
          /\ \E k \in 1..Len(startEv') : startEv'[k].tag = "fresh"
          /\ \E k \in 1..Len(endEv') : endEv'[k].tag = "fresh"
          /\ \E k \in 1..Len(endTransEv') : endTransEv'[k].tag = "fresh"]_vars

\* C16: finishStage(s) for a stage s of the sequence looks s up by its first
\* occurrence: the first thing the call does is enter the stage after that
\* position, or, when that position is the last, end the run; the position
\* being finished plays no part.
C16_FirstOccurrenceLookup ==
    [][(/\ Len(trace') > 0
        /\ trace'[1].ev = "finishStage"
        /\ trace'[1].stage \in Range(stages))
       => LET i == IndexOf(stages, trace'[1].stage)
          IN  /\ stages' = stages
              /\ Len(trace') >= 2
              /\ IF i < Len(stages) - 1
                 THEN trace'[2] \in {Ev("onStart", stages[i + 2], NoTag),
                                     Ev("defineStage", stages[i + 2], NoTag)}
                 ELSE trace'[2] = Ev("runComplete", NoStage, NoTag)]_vars

\* C16 witness: in a run of [prep, prep], finishStage(prep) has entered the
\* second position and the run has not ended.
C16_Witness ==
    /\ ~finishSync
    /\ ~ended
    /\ stages = <<"prep", "prep">>
    /\ Len(trace) >= 2
    /\ trace[1] = Ev("finishStage", "prep", NoTag)
    /\ Count(trace, "defineStage", "prep") = 1
    /\ active["prep"] >= 1

\* What the handlers of the definition log when `stage` is entered
InternalEntries(stage) ==
    (IF stages # << >> /\ stage = stages[1]
     THEN <<Ev("onStart", stage, NoTag)>> ELSE << >>)
    \o <<Ev("defineStage", stage, NoTag)>>

\* C17: an enterStage(s) call invokes the onStart/defineStage actions that
\* match, in registration order, and then the onStageStart(s) subscribers;
\* a finishStage(s) call for a stage of the sequence invokes every
\* onStageEnd(s) subscriber subscribed when it was called (stage actions not
\* finishing at once).
C17_HandlersBeforeReturn ==
    [][(~finishSync /\ Len(trace') > 0)
       => /\ (trace'[1].ev = "enterStage")
             => Tail(trace') = InternalEntries(trace'[1].stage)
                               \o Deliveries(Matching(startEv, trace'[1].stage), "stageStart")
          /\ (trace'[1].ev = "finishStage" /\ trace'[1].stage \in Range(stages))
             => Count(trace', "stageEnd", trace'[1].stage)
                = Len(Matching(endEv, trace'[1].stage))]_vars

\* C18: an update tick invokes every onBeat subscriber once for each beat
\* boundary the sound has crossed since the tick before (none when the beat
\* is the same).
C18_OncePerBeat ==
    [][(Len(trace') > 0 /\ trace'[1].ev = "update")
       => CountEv(trace', "beatHit")
          = Len(beatHitEv) * (BeatOf(soundTime) - currentBeat)]_vars

\* C19: once destroy has been called (by the sound ending or from outside)
\* the update object is gone and the onBeat subscribers of that moment are
\* cleared, no onBeat subscriber is invoked any more, and a further destroy
\* call changes nothing.
C19_TeardownFinal ==
    [][/\ destroyed => CountEv(trace', "beatHit") = 0
       /\ (Len(trace') > 0 /\ trace'[1].ev \in {"destroy", "soundEnd"})
          => /\ ~objExists'
             /\ objExists => beatHitEv' = << >>
             /\ ~objExists => UNCHANGED <<beatHitEv, currentBeat, soundTime>>]_vars

\* C19 witness: after destroy a subscriber was added and destroy was called
\* again: the object is gone, the subscriber is still there, never invoked.
C19_Witness ==
    /\ destroyed
    /\ ~objExists
    /\ Len(beatHitEv) >= 1
    /\ soundTime >= UnitsPerBeat
    /\ trace = <<Ev("destroy", NoStage, NoTag)>>

====
